---- MODULE Spec2Model ----
(***************************************************************************)
(* Model of package persistsql (chi07/persistsql): a persistence facade    *)
(* over PostgreSQL and github.com/go-pg/pg/v10.                            *)
(*                                                                         *)
(* The facade is a thin layer, so the model carries the part of the ORM    *)
(* and of the database that each facade call relies on:                    *)
(*   - go-pg names a column after the snake_case of the Go field unless    *)
(*     the pg tag names it; Query.Column(name) is resolved against the     *)
(*     table's columns when the UPDATE is built and fails with             *)
(*     "does not have column" when the table has no such column;           *)
(*   - a table with a soft_delete field is filtered by "<col> IS NULL"     *)
(*     unless AllWithDeleted() (or Deleted(): "<col> IS NOT NULL");        *)
(*     Query.Delete() on such a table is an UPDATE of that column;         *)
(*   - a query on a struct model with RETURNING runs as QueryOne:          *)
(*     pg.ErrNoRows for 0 rows, pg.ErrMultiRows for more than one;         *)
(*   - RunInTransaction commits when fn returns nil, rolls back when it    *)
(*     returns an error or panics;                                         *)
(*   - PostgreSQL: a statement that fails inside a transaction aborts the  *)
(*     transaction, every later statement fails, and COMMIT of an aborted  *)
(*     transaction rolls back without reporting an error.                  *)
(***************************************************************************)
EXTENDS Integers, Sequences, FiniteSets, TLC

VARIABLES
    kind,       \* the resource type stored in the table (see Kinds)
    rows,       \* the table: ID -> committed row, Absent when there is none
    last,       \* the last facade call on a resource: arguments and outcome
    tables,     \* CreateTables: the tables that exist (committed)
    lastCT,     \* the last CreateTables call: arguments and outcome
    txs,        \* concurrent UpdateResource calls: caller -> transaction
    seen        \* concurrent UpdateResource: rows read by an observer

vars == <<kind, rows, last, tables, lastCT, txs, seen>>

----------------------------------------------------------------------------
(* Bounds *)

\* timestamps are 1..MaxTime; 0 is the zero time.Time, stored as NULL
MaxTime == 2

Times == 1 .. MaxTime

IDs == {1, 2}

Names == {"a", "b"}

----------------------------------------------------------------------------
(* model.Common and the resource types *)

\* A resource struct: model.Common's fields plus one field of its own, Name.
\* Zero values as in Go: 0 for uuid.Nil, the zero time and 0, "" for Name.
ZeroStruct ==
    [ID |-> 0, CreateTime |-> 0, UpdateTime |-> 0, DeleteTime |-> 0,
     Version |-> 0, Name |-> ""]

Absent == ZeroStruct

\* Resource types the facade is given:
\*   "common": embeds model.Common as declared, columns named by go-pg from
\*             the field names;
\*   "at":     a type that maps the same fields to the column names the
\*             facade hard-codes (updated_at, deleted_at).
Kinds == {"common", "at"}

\* column name -> Go field
Columns(k) ==
    IF k = "common"
    THEN [id |-> "ID", create_time |-> "CreateTime", update_time |-> "UpdateTime",
          delete_time |-> "DeleteTime", version |-> "Version", name |-> "Name"]
    ELSE [id |-> "ID", created_at |-> "CreateTime", updated_at |-> "UpdateTime",
          deleted_at |-> "DeleteTime", version |-> "Version", name |-> "Name"]

\* the column of the field tagged soft_delete
SoftDeleteColumn(k) == IF k = "common" THEN "delete_time" ELSE "deleted_at"

\* fields tagged notnull (a primary key is not null either)
NotNullFields == {"ID", "CreateTime", "UpdateTime", "Version"}

----------------------------------------------------------------------------
(* orm.Query as the facade builds it *)

\* Query hooks a caller passes: nil, a function that adds nothing, and a
\* function that adds the predicate "id = <the resource's ID>".
Hooks == {"nil", "noop", "pk"}

\* where:   the IDs the WHERE clause requires the row's id to equal
\* soft:    the soft-delete filter: "live", "deleted" or "all"
\* columns: the columns named with Query.Column
NewQuery == [where |-> {}, soft |-> "live", columns |-> <<>>]

WherePK(q, strct) == [q EXCEPT !.where = @ \cup {strct.ID}]

AllWithDeleted(q) == [q EXCEPT !.soft = "all"]

Deleted(q) == [q EXCEPT !.soft = "deleted"]

Column(q, c) == [q EXCEPT !.columns = Append(@, c)]

ShowDeletedIgnored(q, showDeleted) == q

ShowDeleted(q, showDeleted) == IF showDeleted THEN AllWithDeleted(q) ELSE q

\* queryHook(query): the "pk" hook adds its predicate, the others leave the
\* query as it is (a nil hook is not called where the facade checks for it)
CallHook(hook, q, strct) == IF hook = "pk" THEN WherePK(q, strct) ELSE q

RECURSIVE ColumnAll(_, _)
ColumnAll(q, cs) ==
    IF cs = <<>> THEN q ELSE ColumnAll(Column(q, Head(cs)), Tail(cs))

\* the rows of tbl the query's WHERE clause and soft-delete filter select
Matched(q, tbl) ==
    {id \in IDs :
        /\ tbl[id] # Absent
        /\ \A p \in q.where : id = p
        /\ \/ q.soft = "all"
           \/ q.soft = "live" /\ tbl[id].DeleteTime = 0
           \/ q.soft = "deleted" /\ tbl[id].DeleteTime # 0}

\* the Go fields the query's columns stand for
SetFields(k, q) == {Columns(k)[q.columns[i]] : i \in DOMAIN q.columns}

\* SET <column> = <the struct's value> for every column of the query
SetRow(k, q, row, strct) ==
    [f \in DOMAIN row |-> IF f \in SetFields(k, q) THEN strct[f] ELSE row[f]]

\* Query.Update() on a struct model with RETURNING *: the transaction's rows
\* afterwards, the error and the struct as scanned from the returned row.
Update(tbl, k, q, strct, dbfail) ==
    LET m == Matched(q, tbl)
        new == [id \in IDs |-> IF id \in m THEN SetRow(k, q, tbl[id], strct)
                               ELSE tbl[id]]
    IN  IF \E i \in DOMAIN q.columns : q.columns[i] \notin DOMAIN Columns(k)
        THEN [rows |-> tbl, err |-> "nocol", out |-> strct]
        ELSE IF q.where = {}
        THEN [rows |-> tbl, err |-> "nowhere", out |-> strct]
        ELSE IF dbfail
        THEN [rows |-> tbl, err |-> "db", out |-> strct]
        ELSE IF m # {} /\ \E f \in SetFields(k, q) \cap NotNullFields : strct[f] = 0
        THEN [rows |-> tbl, err |-> "db", out |-> strct]
        ELSE IF m = {}
        THEN [rows |-> tbl, err |-> "norows", out |-> strct]
        ELSE IF Cardinality(m) > 1
        THEN [rows |-> new, err |-> "multi", out |-> strct]
        ELSE [rows |-> new, err |-> "nil", out |-> new[CHOOSE id \in m : TRUE]]

\* Query.Delete() when the table has a soft_delete field: the field of the
\* struct is set to now and the query runs as an UPDATE of that column.
SoftDelete(tbl, k, q, strct, now, dbfail) ==
    Update(tbl, k, Column(q, SoftDeleteColumn(k)),
           [strct EXCEPT !.DeleteTime = now], dbfail)

\* Query.ForceDelete(): DELETE FROM ... RETURNING *
ForceDelete(tbl, k, q, strct, now, dbfail) ==
    LET m == Matched(q, tbl)
        new == [id \in IDs |-> IF id \in m THEN Absent ELSE tbl[id]]
    IN  IF dbfail THEN [rows |-> tbl, err |-> "db", out |-> strct]
        ELSE IF m = {} THEN [rows |-> tbl, err |-> "norows", out |-> strct]
        ELSE IF Cardinality(m) > 1
        THEN [rows |-> new, err |-> "multi", out |-> strct]
        ELSE [rows |-> new, err |-> "nil", out |-> tbl[CHOOSE id \in m : TRUE]]

Delete(tbl, k, q, strct, now, dbfail) == SoftDelete(tbl, k, q, strct, now, dbfail)

\* Query.Select() on a struct model
Select(tbl, q, strct, dbfail) ==
    LET m == Matched(q, tbl)
    IN  IF dbfail THEN [err |-> "db", out |-> strct]
        ELSE IF m = {} THEN [err |-> "norows", out |-> strct]
        ELSE IF Cardinality(m) > 1 THEN [err |-> "multi", out |-> strct]
        ELSE [err |-> "nil", out |-> tbl[CHOOSE id \in m : TRUE]]

\* Query.Insert(): zero fields take the column's DEFAULT (1 for version, none
\* for the others), and the defaulted columns are scanned back.
Insert(tbl, strct, dbfail) ==
    LET row == [strct EXCEPT !.Version = IF @ = 0 THEN 1 ELSE @]
    IN  IF dbfail \/ strct.ID \notin IDs THEN [rows |-> tbl, err |-> "db", out |-> strct]
        ELSE IF tbl[strct.ID] # Absent \/ \E f \in NotNullFields : row[f] = 0
        THEN [rows |-> tbl, err |-> "db", out |-> strct]
        ELSE [rows |-> [tbl EXCEPT ![strct.ID] = row], err |-> "nil", out |-> row]

RunInTransactionNoRollback(tbl, r) ==
    [r EXCEPT !.events = @ \o <<"commit">>]

\* pg.DB.RunInTransaction(fn): r is what fn did on the transaction.  Roll
\* back when fn panics or returns an error, else COMMIT; PostgreSQL answers
\* the COMMIT of an aborted transaction by rolling back, without an error.
RunInTransaction(tbl, r) ==
    IF r.panic \/ r.err # "nil"
    THEN [r EXCEPT !.rows = tbl, !.events = @ \o <<"rollback">>]
    ELSE IF r.aborted
    THEN [r EXCEPT !.rows = tbl, !.events = @ \o <<"commit">>]
    ELSE [r EXCEPT !.events = @ \o <<"commit">>]

----------------------------------------------------------------------------
(* The facade: one operator per method.  Each yields                       *)
(*   rows:   the committed table afterwards                                *)
(*   out:    the caller's struct afterwards (the resource is a pointer)    *)
(*   ret:    "resource", "nil" or "panic"; err: the error returned         *)
(*   events: what the call did, in order                                   *)

\* what the method returns for the work r it ran; pg.ErrNoRows becomes
\* (nil, nil), any other error (nil, err)
Returned(r) ==
    [rows   |-> r.rows,
     out    |-> r.out,
     ret    |-> IF r.panic THEN "panic" ELSE IF r.err = "nil" THEN "resource" ELSE "nil",
     err    |-> IF r.panic \/ r.err = "norows" THEN "nil" ELSE r.err,
     events |-> r.events]

\* calling a nil func value panics
NilHookPanic(tbl, strct, events) ==
    [rows |-> tbl, err |-> "nil", out |-> strct, events |-> events,
     panic |-> TRUE, aborted |-> FALSE]

\* the one statement x the call ran; a statement the database failed leaves
\* the transaction aborted
Ran(x, events) ==
    [rows |-> x.rows, err |-> x.err, out |-> x.out, events |-> events,
     panic |-> FALSE, aborted |-> x.err = "db"]

CreateResource(tbl, strct, dbfail) ==
    Returned(RunInTransaction(tbl,
        Ran(Insert(tbl, strct, dbfail), <<"begin", "build", "exec">>)))

\* the query GetResource runs: ShowDeleted, then the hook
GetQuery(strct, showDeleted, hook) ==
    CallHook(hook, ShowDeleted(NewQuery, showDeleted), strct)

GetResource(tbl, strct, showDeleted, hook, dbfail) ==
    IF hook = "nil"
    THEN Returned(NilHookPanic(tbl, strct, <<"build">>))
    ELSE LET x == Select(tbl, GetQuery(strct, showDeleted, hook), strct, dbfail)
         IN  Returned([rows |-> tbl, err |-> x.err, out |-> x.out,
                       events |-> <<"build", "hook", "exec">>, panic |-> FALSE])

UpdateColumnsName(fields) == <<"updated_at", "name">> \o fields

\* Column("updated_at"), then Column(col) for each of fields
UpdateColumns(fields) == <<"updated_at">> \o fields

\* the query UpdateResource runs: the columns, then the hook
UpdateQuery(strct, fields, hook) ==
    CallHook(hook, ColumnAll(NewQuery, UpdateColumns(fields)), strct)

UpdateResourceNilOk(tbl, k, strct, fields, hook, dbfail) ==
    Returned(RunInTransaction(tbl,
        Ran(Update(tbl, k, UpdateQuery(strct, fields, hook), strct, dbfail),
            IF hook = "nil" THEN <<"begin", "build", "exec">>
            ELSE <<"begin", "build", "hook", "exec">>)))

UpdateResource(tbl, k, strct, fields, hook, dbfail) ==
    Returned(RunInTransaction(tbl,
        IF hook = "nil"
        THEN NilHookPanic(tbl, strct, <<"begin", "build">>)
        ELSE Ran(Update(tbl, k, UpdateQuery(strct, fields, hook), strct, dbfail),
                 <<"begin", "build", "hook", "exec">>)))

\* the query DeleteResource runs: WherePK, then the hook unless it is nil
DeleteQuery(strct, hook) == CallHook(hook, WherePK(NewQuery, strct), strct)

DeleteResource(tbl, k, strct, hook, now, dbfail) ==
    Returned(RunInTransaction(tbl,
        Ran(Delete(tbl, k, DeleteQuery(strct, hook), strct, now, dbfail),
            IF hook = "nil" THEN <<"begin", "build", "exec">>
            ELSE <<"begin", "build", "hook", "exec">>)))

\* the query UndeleteResource runs: WherePK().Deleted().Column("deleted_at"),
\* then the hook unless it is nil
UndeleteQuery(strct, hook) ==
    CallHook(hook, Column(Deleted(WherePK(NewQuery, strct)), "deleted_at"), strct)

UndeleteResource(tbl, k, strct, hook, dbfail) ==
    Returned(RunInTransaction(tbl,
        Ran(Update(tbl, k, UndeleteQuery(strct, hook), strct, dbfail),
            IF hook = "nil" THEN <<"begin", "build", "exec">>
            ELSE <<"begin", "build", "hook", "exec">>)))

----------------------------------------------------------------------------
(* CreateTables *)

\* models are numbered 1..MaxModels, a call passes the first n of them
MaxModels == 2

\* a call passes up to MaxRaw raw queries
MaxRaw == 2

\* The text of a raw query, by what the database does with it in a healthy
\* transaction: "ok" takes effect, "db" is rejected with an error, "norows"
\* runs but affects no row (ExecOne then returns pg.ErrNoRows).
Texts == {"ok", "db", "norows"}

\* RawQuery{Q, ErrOk}
RawQuery == [Q : Texts, ErrOk : BOOLEAN]

\* rawQueries []RawQuery: nil or up to MaxRaw queries (a nil slice and an
\* empty one run the same)
RawQueryLists == UNION {[1 .. n -> RawQuery] : n \in 0 .. MaxRaw}

\* tx.Model(model).CreateTable(IfNotExists): fails when the database rejects
\* it, which aborts the transaction
CreateTable(tx, model, fails) ==
    IF fails \/ tx.aborted
    THEN [tx EXCEPT !.err = "db", !.aborted = TRUE]
    ELSE [tx EXCEPT !.rows.tables = @ \cup {model}]

\* tx.ExecOne(curr.Q), the i-th raw query: in an aborted transaction every
\* statement is rejected
ExecOne(tx, i, curr) ==
    IF tx.aborted \/ curr.Q = "db"
    THEN [tx EXCEPT !.err = "db", !.aborted = TRUE]
    ELSE IF curr.Q = "norows"
    THEN [tx EXCEPT !.err = "norows"]
    ELSE [tx EXCEPT !.err = "nil", !.rows.applied = Append(@, i)]

\* for _, model := range models: the creation of the last model fails when
\* failLast is set
RECURSIVE CreateAll(_, _, _, _)
CreateAll(tx, n, i, failLast) ==
    IF i > n THEN tx
    ELSE LET t == CreateTable(tx, i, failLast /\ i = n)
         IN  IF t.err # "nil" THEN t ELSE CreateAll(t, n, i + 1, failLast)

\* err != nil && !curr.ErrOk, for the transaction t after the query curr
ReturnsError(curr, t) == t.err # "nil" /\ ~curr.ErrOk

\* for _, curr := range rawQueries
RECURSIVE ExecAll(_, _, _)
ExecAll(tx, raw, i) ==
    IF i > Len(raw) THEN [tx EXCEPT !.err = "nil"]
    ELSE LET t == ExecOne(tx, i, raw[i])
         IN  IF ReturnsError(raw[i], t) THEN t ELSE ExecAll(t, raw, i + 1)

\* CreateTables(models = 1..n, rawQueries = raw): the committed tables, the
\* raw queries whose effect is committed, and the error returned
CreateTables(tbls, n, failLast, raw) ==
    LET tx0 == [rows |-> [tables |-> tbls, applied |-> <<>>], err |-> "nil",
                aborted |-> FALSE, panic |-> FALSE, events |-> <<"begin">>]
        tx1 == CreateAll(tx0, n, 1, failLast)
        fn  == IF tx1.err # "nil" THEN tx1 ELSE ExecAll(tx1, raw, 1)
    IN  RunInTransaction([tables |-> tbls, applied |-> <<>>], fn)

NoCreateTables ==
    [n |-> 0, failLast |-> FALSE, raw |-> <<>>, pre |-> {}, err |-> "nil",
     applied |-> <<>>]

\* a call, once the caller is done with the previous call's result
CreateTablesCall ==
    \E n \in 0 .. MaxModels, failLast \in BOOLEAN, raw \in RawQueryLists :
        /\ lastCT = NoCreateTables
        /\ failLast => n > 0
        /\ LET r == CreateTables(tables, n, failLast, raw)
           IN  /\ tables' = r.rows.tables
               /\ lastCT' = [n |-> n, failLast |-> failLast, raw |-> raw,
                             pre |-> tables, err |-> r.err,
                             applied |-> r.rows.applied]
        /\ UNCHANGED <<kind, rows, last, txs, seen>>

----------------------------------------------------------------------------
(* Calls on resources, one at a time *)

\* time.Now() as DeleteResource reads it: the latest timestamp
Now == MaxTime

\* the structs a caller passes: only the key set, ...
KeyStructs == {[ZeroStruct EXCEPT !.ID = id] : id \in IDs}

\* ... a new resource, stamped with the first timestamp, ...
NewStructs ==
    {[ID |-> id, CreateTime |-> 1, UpdateTime |-> 1, DeleteTime |-> 0,
      Version |-> 0, Name |-> n] : id \in IDs, n \in Names}

\* ... or the key and the fields to update
EditStructs ==
    {[ID |-> id, CreateTime |-> 0, UpdateTime |-> t, DeleteTime |-> 0,
      Version |-> 0, Name |-> n] : id \in IDs, t \in Times, n \in Names}

FieldLists == {<<>>, <<"name">>}

NoCall ==
    [op |-> "none", in |-> ZeroStruct, hook |-> "nil", showDeleted |-> FALSE,
     fields |-> <<>>, dbfail |-> FALSE, pre |-> [id \in IDs |-> Absent],
     out |-> ZeroStruct, ret |-> "nil", err |-> "nil", events |-> <<>>,
     afterDelete |-> FALSE]

\* record the call and commit its outcome; afterDelete: the call directly
\* follows a successful DeleteResource of the same resource by primary key
Record(op, strct, hook, showDeleted, fields, dbfail, r) ==
    /\ rows' = r.rows
    /\ last' = [op |-> op, in |-> strct, hook |-> hook, showDeleted |-> showDeleted,
                fields |-> fields, dbfail |-> dbfail, pre |-> rows,
                out |-> r.out, ret |-> r.ret, err |-> r.err, events |-> r.events,
                afterDelete |-> /\ last.op = "Delete"
                                /\ last.ret = "resource"
                                /\ last.hook = "pk"
                                /\ last.in.ID = strct.ID]
    /\ UNCHANGED <<kind, tables, lastCT, txs, seen>>

\* a failure of the database itself is tried on calls by primary key
DbFailures(hook) == IF hook = "pk" THEN BOOLEAN ELSE {FALSE}

Create ==
    \E strct \in NewStructs, dbfail \in BOOLEAN :
        Record("Create", strct, "nil", FALSE, <<>>, dbfail,
               CreateResource(rows, strct, dbfail))

Get ==
    \E strct \in KeyStructs, showDeleted \in BOOLEAN, hook \in Hooks :
        \E dbfail \in DbFailures(hook) :
            Record("Get", strct, hook, showDeleted, <<>>, dbfail,
                   GetResource(rows, strct, showDeleted, hook, dbfail))

\* the structs tried with a hook: without the hook's predicate the UPDATE
\* is never sent, so only the key is varied
UpdateStructs(hook) == IF hook = "pk" THEN EditStructs ELSE KeyStructs

UpdateCall ==
    \E hook \in Hooks, fields \in FieldLists : \E strct \in UpdateStructs(hook) :
        \E dbfail \in DbFailures(hook) :
            Record("Update", strct, hook, FALSE, fields, dbfail,
                   UpdateResource(rows, kind, strct, fields, hook, dbfail))

DeleteCall ==
    \E strct \in KeyStructs, hook \in Hooks :
        \E dbfail \in DbFailures(hook) :
            Record("Delete", strct, hook, FALSE, <<>>, dbfail,
                   DeleteResource(rows, kind, strct, hook, Now, dbfail))

\* the struct is a new one or the one the previous call left (the same pointer)
Undelete ==
    \E strct \in KeyStructs \cup {last.out}, hook \in Hooks :
        \E dbfail \in DbFailures(hook) :
            Record("Undelete", strct, hook, FALSE, <<>>, dbfail,
                   UndeleteResource(rows, kind, strct, hook, dbfail))

----------------------------------------------------------------------------
(* Two concurrent UpdateResource calls on the row of TargetID, each in a    *)
(* transaction of its own.  PostgreSQL (READ COMMITTED): an UPDATE waits    *)
(* for a row another transaction has written and not yet committed, then   *)
(* runs on the committed row; what a transaction wrote is invisible to the *)
(* others until it commits.                                                *)

Callers == {"A", "B"}

TargetID == CHOOSE id \in IDs : \A other \in IDs : id <= other

\* the row the calls update, as CreateResource left it
TargetRow ==
    [ID |-> TargetID, CreateTime |-> 1, UpdateTime |-> 1, DeleteTime |-> 0,
     Version |-> 1, Name |-> "a"]

NoWork ==
    [rows |-> [id \in IDs |-> Absent], err |-> "nil", out |-> ZeroStruct,
     events |-> <<>>, panic |-> FALSE, aborted |-> FALSE]

\* pc: "idle", "begun" (BEGIN sent), "executed" (the UPDATE ran), "done"
\* work: what fn did; locked: the rows it wrote; order: when it committed
IdleTx ==
    [pc |-> "idle", strct |-> ZeroStruct, fields |-> <<>>, work |-> NoWork,
     locked |-> {}, ret |-> "nil", err |-> "nil", order |-> 0]

StagedRowsColumnwise(tbl, r) ==
    [id \in IDs |-> IF r.err = "nil" /\ tbl[id] # Absent
                    THEN [tbl[id] EXCEPT !.UpdateTime = r.rows[id].UpdateTime]
                    ELSE tbl[id]]

\* the committed table once the UPDATE has run on tx: as before, the work
\* stays in the transaction until RunInTransaction commits it
StagedRows(tbl, r) == tbl

\* UpdateResource is called: RunInTransaction begins the transaction
Begin(c) ==
    /\ txs[c].pc = "idle"
    /\ \E strct \in {x \in EditStructs : x.ID = TargetID}, fields \in FieldLists :
          txs' = [txs EXCEPT ![c] = [@ EXCEPT !.pc = "begun", !.strct = strct,
                                               !.fields = fields]]
    /\ UNCHANGED <<kind, rows, last, tables, lastCT, seen>>

\* fn builds the query, calls the hook and runs the UPDATE
Exec(c) ==
    /\ txs[c].pc = "begun"
    /\ LET t == txs[c]
           q == UpdateQuery(t.strct, t.fields, "pk")
           r == Ran(Update(rows, kind, q, t.strct, FALSE),
                    <<"begin", "build", "hook", "exec">>)
           written == IF r.err \in {"nil", "multi"} THEN Matched(q, rows) ELSE {}
       IN  /\ \A d \in Callers \ {c} : txs[d].locked \cap Matched(q, rows) = {}
           /\ txs' = [txs EXCEPT ![c] = [@ EXCEPT !.pc = "executed", !.work = r,
                                                   !.locked = written]]
           /\ rows' = StagedRows(rows, r)
    /\ UNCHANGED <<kind, last, tables, lastCT, seen>>

\* RunInTransaction commits or rolls back, and UpdateResource returns
Finish(c) ==
    /\ txs[c].pc = "executed"
    /\ LET t == txs[c]
           r == Returned(RunInTransaction(rows, t.work))
       IN  /\ rows' = [id \in IDs |-> IF id \in t.locked THEN r.rows[id] ELSE rows[id]]
           /\ txs' = [txs EXCEPT ![c] =
                        [@ EXCEPT !.pc = "done", !.locked = {}, !.ret = r.ret,
                                  !.err = r.err,
                                  !.order = 1 + Cardinality({d \in Callers : txs[d].pc = "done"})]]
    /\ UNCHANGED <<kind, last, tables, lastCT, seen>>

\* another transaction reads the row
Observe ==
    /\ seen' = rows[TargetID]
    /\ UNCHANGED <<kind, rows, last, tables, lastCT, txs>>

InitConc ==
    /\ kind \in Kinds
    /\ rows = [id \in IDs |-> IF id = TargetID THEN TargetRow ELSE Absent]
    /\ last = NoCall
    /\ tables = {}
    /\ lastCT = NoCreateTables
    /\ txs = [c \in Callers |-> IdleTx]
    /\ seen = TargetRow

NextConc == \E c \in Callers : Begin(c) \/ Exec(c) \/ Finish(c) \/ Observe

SpecConc == InitConc /\ [][NextConc]_vars

Init ==
    /\ kind \in Kinds
    /\ rows = [id \in IDs |-> Absent]
    /\ last = NoCall
    /\ tables = {}
    /\ lastCT = NoCreateTables
    /\ txs = [c \in Callers |-> IdleTx]
    /\ seen = Absent

Next == Create \/ Get \/ UpdateCall \/ DeleteCall \/ Undelete

Spec == Init /\ [][Next]_vars

InitTables == Init /\ kind = "common"

\* the caller is done with the result of CreateTables
CreateTablesDone ==
    /\ lastCT # NoCreateTables
    /\ lastCT' = NoCreateTables
    /\ UNCHANGED <<kind, rows, last, tables, txs, seen>>

NextTables == CreateTablesCall \/ CreateTablesDone

SpecTables == InitTables /\ [][NextTables]_vars

----------------------------------------------------------------------------
(* Properties of the calls on resources (specification Spec) *)

Calls == {"Get", "Update", "Delete", "Undelete"}

\* the query the last call ran
LastQuery ==
    CASE last.op = "Get" -> GetQuery(last.in, last.showDeleted, last.hook)
      [] last.op = "Update" -> UpdateQuery(last.in, last.fields, last.hook)
      [] last.op = "Delete" -> DeleteQuery(last.in, last.hook)
      [] OTHER -> UndeleteQuery(last.in, last.hook)

\* the row the last call's resource names, before the call
PreRow == IF last.in.ID \in IDs THEN last.pre[last.in.ID] ELSE Absent

\* GetResource(R, showDeleted=false, hookPK) returns R
Visible(id) ==
    GetResource(rows, [ZeroStruct EXCEPT !.ID = id], FALSE, "pk", FALSE).ret = "resource"

Count(seq, e) == Cardinality({i \in DOMAIN seq : seq[i] = e})

Index(seq, e) == CHOOSE i \in DOMAIN seq : seq[i] = e

\* C3: when the database answers the query, GetResource by primary key on a
\* soft-deleted row returns (nil, nil) with showDeleted=false and the row with
\* showDeleted=true; on an active row it returns the row either way.
C3_SoftDeletedHiddenUnlessShown ==
    (last.op = "Get" /\ last.hook = "pk" /\ ~last.dbfail /\ PreRow # Absent) =>
        IF PreRow.DeleteTime # 0 /\ ~last.showDeleted
        THEN last.ret = "nil" /\ last.err = "nil"
        ELSE last.ret = "resource" /\ last.err = "nil" /\ last.out = PreRow

C3_Witness ==
    /\ last.op = "Get" /\ last.hook = "pk" /\ ~last.dbfail
    /\ PreRow # Absent /\ PreRow.DeleteTime # 0
    /\ last.showDeleted /\ last.ret = "resource" /\ last.out = PreRow

\* C4: in read, update, delete and undelete a predicate that matches no row
\* is not an error: the call returns (nil, nil) and leaves the table as it
\* was; any other failure is returned as (nil, err) and nothing is committed.
C4_NotFoundIsNotAnError ==
    (last.op \in Calls /\ last.ret # "panic") =>
        /\ (LastQuery.where # {} /\ Matched(LastQuery, last.pre) = {} /\ ~last.dbfail)
              => (last.ret = "nil" /\ last.err = "nil" /\ rows = last.pre)
        /\ last.err # "nil" => (last.ret = "nil" /\ rows = last.pre)

C6_DeleteThenUndeleteRestores ==
    /\ (last.op = "Delete" /\ last.hook = "pk" /\ last.ret = "resource")
          => ~Visible(last.in.ID)
    /\ (last.op = "Undelete" /\ last.hook = "pk" /\ last.afterDelete /\ ~last.dbfail)
          => Visible(last.in.ID)

\* C7: UndeleteResource on a row that is not soft-deleted returns (nil, nil)
\* and changes nothing; on a soft-deleted row it clears DeleteTime and leaves
\* every other column, Version and UpdateTime among them, as it was.
C7_UndeleteClearsDeleteTimeOnly ==
    (last.op = "Undelete" /\ ~last.dbfail /\ PreRow # Absent) =>
        IF PreRow.DeleteTime = 0
        THEN last.ret = "nil" /\ last.err = "nil" /\ rows = last.pre
        ELSE rows = [last.pre EXCEPT ![last.in.ID].DeleteTime = 0]

\* the hook ran once, after the query was built and before it was executed
HookRanOnce ==
    /\ Count(last.events, "hook") = 1
    /\ Index(last.events, "build") < Index(last.events, "hook")
    /\ "exec" \in {last.events[i] : i \in DOMAIN last.events}
          => Index(last.events, "hook") < Index(last.events, "exec")

\* the call ran its base query without calling the hook
RanWithoutHook ==
    /\ last.ret # "panic"
    /\ Count(last.events, "hook") = 0
    /\ Count(last.events, "exec") = 1

\* C8 as stated: a hook is called exactly once, between building and
\* executing the query; GetResource calls it even when it is nil (a panic);
\* UpdateResource, DeleteResource and UndeleteResource skip a nil hook and
\* run the base query.
C8_NilHookToleratedByWrites ==
    /\ (last.op \in Calls /\ last.hook # "nil") => HookRanOnce
    /\ (last.op = "Get" /\ last.hook = "nil") => last.ret = "panic"
    /\ (last.op \in {"Update", "Delete", "Undelete"} /\ last.hook = "nil")
          => RanWithoutHook

\* C8 amended: as above, but UpdateResource calls the hook unconditionally
\* like GetResource: with a nil hook it panics and nothing is executed or
\* committed; only DeleteResource and UndeleteResource skip a nil hook.
C8_NilHookToleratedByDeleteUndelete ==
    /\ (last.op \in Calls /\ last.hook # "nil") => HookRanOnce
    /\ (last.op \in {"Get", "Update"} /\ last.hook = "nil")
          => (last.ret = "panic" /\ Count(last.events, "exec") = 0
              /\ rows = last.pre)
    /\ (last.op \in {"Delete", "Undelete"} /\ last.hook = "nil") => RanWithoutHook

C8_Witness ==
    /\ last.op = "Update" /\ last.hook = "nil" /\ last.ret = "panic"
    /\ PreRow # Absent /\ PreRow.DeleteTime = 0

\* C10: no call removes a row: a row that exists keeps existing under its
\* ID; a successful DeleteResource sets the row's DeleteTime and nothing
\* else, and the row is still read with showDeleted=true.
C10_RowsAreNeverRemoved ==
    /\ \A id \in IDs : rows[id] # Absent => rows[id].ID = id
    /\ \A id \in IDs : last.pre[id] # Absent => rows[id] # Absent
    /\ (last.op = "Delete" /\ last.ret = "resource") =>
          /\ PreRow # Absent
          /\ rows[last.in.ID].DeleteTime # 0
          /\ rows = [last.pre EXCEPT ![last.in.ID].DeleteTime = rows[last.in.ID].DeleteTime]
          /\ GetResource(rows, last.in, TRUE, "pk", FALSE).out = rows[last.in.ID]

C10_Witness ==
    /\ kind = "common"
    /\ last.op = "Delete" /\ last.ret = "resource"
    /\ rows[last.in.ID] # Absent /\ rows[last.in.ID].DeleteTime # 0

----------------------------------------------------------------------------
(* Properties of CreateTables (specification SpecTables) *)

\* the raw queries of the last call that the database does not carry out
FailingRaw == {i \in DOMAIN lastCT.raw : lastCT.raw[i].Q # "ok"}

\* the raw queries of the last call that take effect when run, in order
EffectiveRaw ==
    LET Ok(i) == lastCT.raw[i].Q = "ok"
    IN  SelectSeq([i \in DOMAIN lastCT.raw |-> i], Ok)

\* C1: when the creation of a table fails, or a raw query that is not marked
\* ErrOk fails, CreateTables returns an error; and whenever it returns an
\* error nothing of the call is committed: the tables are those that existed
\* before the call and no raw query has taken effect.
C1_CreateTablesIsAtomic ==
    /\ (lastCT.failLast \/ \E i \in FailingRaw : ~lastCT.raw[i].ErrOk)
          => lastCT.err # "nil"
    /\ lastCT.err # "nil" => (tables = lastCT.pre /\ lastCT.applied = <<>>)

C1_Witness ==
    /\ lastCT.n = MaxModels /\ lastCT.pre = {} /\ ~lastCT.failLast
    /\ Len(lastCT.raw) = 2
    /\ lastCT.raw[1].Q = "ok"
    /\ lastCT.raw[2] = [Q |-> "db", ErrOk |-> FALSE]
    /\ lastCT.err = "db" /\ tables = {}

\* C2: when every raw query that fails is marked ErrOk (and one does fail),
\* CreateTables returns nil, every table of the call exists afterwards and
\* every other raw query, before and after the failing one, has taken
\* effect, in order.
C2_ToleratedFailureAppliesTheRest ==
    (/\ ~lastCT.failLast
     /\ FailingRaw # {}
     /\ \A i \in FailingRaw : lastCT.raw[i].ErrOk)
    => /\ lastCT.err = "nil"
       /\ tables = lastCT.pre \cup (1 .. lastCT.n)
       /\ lastCT.applied = EffectiveRaw

----------------------------------------------------------------------------
(* Properties of concurrent updates (specification SpecConc) *)

\* the fields both calls write: UpdateTime, and Name when both list "name"
Overlap ==
    {"UpdateTime"} \cup
    (IF \A c \in Callers : txs[c].fields = <<"name">> THEN {"Name"} ELSE {})

\* row holds, in the overlapping columns, the values from before both
\* updates or the values of one whole update
Untorn(row) ==
    \/ \A f \in Overlap : row[f] = TargetRow[f]
    \/ \E c \in Callers :
          /\ txs[c].pc \in {"executed", "done"}
          /\ \A f \in Overlap : row[f] = txs[c].strct[f]

====
